---- MODULE Spec2Model ----
(***************************************************************************)
(* Certificate Segregator (src/main.py): upload validation, company-name   *)
(* cleaning, retrying name extraction, de-duplicating save, and the        *)
(* per-file batch loop with its session statistics.                        *)
(*                                                                         *)
(* Text is modelled as a sequence of one-character strings, so that the    *)
(* regular expressions and slices of the source act on characters.         *)
(***************************************************************************)
EXTENDS Integers, Sequences, FiniteSets, TLC

VARIABLES
    \* ---- validate_file, called on its own
    vfile,              \* the argument: NoneFile or an upload record
    vres,               \* the returned tuple, <<>> before the call
    \* ---- clean_company_name, called on its own
    cparts,             \* the pieces the argument string is assembled from
    cpc,                \* "arg" | "once" | "twice"
    cout,               \* clean_company_name(argument)
    cout2,              \* clean_company_name(cout)
    \* ---- get_company_name_from_pdf, called on its own
    ex,                 \* its locals: attempt, the outcome of each
                        \* generate_content call, the time.sleep(1) calls,
                        \* whether it has returned, and what
    \* ---- the application: session state, disk, and the click being handled
    session_state,      \* st.session_state, a dict
    files,              \* the files under certificates/: path -> contents
    dirs,               \* the company folders under certificates/
    cache,              \* st.cache_data entries of process_uploaded_pdf
    clock,              \* the millisecond the last timestamp was taken in
    submitted,          \* files submitted so far, over all Process clicks
    pc,                 \* "idle" | "validate" | "rasterize" | "extract" |
                        \* "decide" | "store"
    uploaded_files,     \* the list the uploader returned for this click
    idx,                \* the loop variable i, from 1
    results,            \* the local list results
    company_name,       \* what get_company_name_from_pdf returned
    log                 \* the stages ended in this batch, <<i, stage>>

validVars == <<vfile, vres>>
cleanVars == <<cparts, cpc, cout, cout2>>
diskVars == <<files, dirs, clock>>
appVars == <<session_state, files, dirs, cache, clock, submitted, pc,
             uploaded_files, idx, results, company_name, log>>
vars == <<vfile, vres, cparts, cpc, cout, cout2, ex, session_state, files, dirs,
          cache, clock, submitted, pc, uploaded_files, idx, results,
          company_name, log>>

----------------------------------------------------------------------------
(* Bounds of the model *)

\* lengths of the filler run of a cleaning input: 0..PadSpan and
\* NameLimit-PadSpan .. NameLimit+PadSpan
PadSpan == 1
\* files submitted in one session, over all clicks; last millisecond of the clock
MaxUploads == 3
MaxClock == 1
\* upload sizes lie within SizeSpan bytes of 0 and of the ceiling
SizeSpan == 2

(* Program constants *)
MAX_FILE_SIZE_MB == 200
BytesPerMB == 1048576
NameLimit == 50
max_retries == 3

----------------------------------------------------------------------------
(* Characters and strings *)

Whitespace == {" ", "\t", "\n"}

UpperCase == <<"A","B","C","D","E","F","G","H","I","J","K","L","M",
               "N","O","P","Q","R","S","T","U","V","W","X","Y","Z">>
LowerCase == <<"a","b","c","d","e","f","g","h","i","j","k","l","m",
               "n","o","p","q","r","s","t","u","v","w","x","y","z">>

\* re.IGNORECASE compares characters up to case
LowerOf ==
    [c \in {UpperCase[k] : k \in 1..26} |->
        LowerCase[CHOOSE k \in 1..26 : UpperCase[k] = c]]

Lower(c) == IF c \in DOMAIN LowerOf THEN LowerOf[c] ELSE c

Take(s, n) == SubSeq(s, 1, n)
Drop(s, n) == SubSeq(s, n + 1, Len(s))

\* the number of whitespace characters from index i on: what a greedy \s* takes
RECURSIVE SpaceRun(_, _)
SpaceRun(s, i) ==
    IF i > Len(s) \/ s[i] \notin Whitespace THEN 0 ELSE 1 + SpaceRun(s, i + 1)

\* s has the word w at index j, case ignored
HasWordAt(s, j, w) ==
    /\ j + Len(w) - 1 <= Len(s)
    /\ \A k \in 1..Len(w) : Lower(s[j + k - 1]) = Lower(w[k])

\* x in s, on strings
Contains(s, x) ==
    \E j \in 1..(Len(s) - Len(x) + 1) : SubSeq(s, j, j + Len(x) - 1) = x

StartsWith(s, x) == Len(s) >= Len(x) /\ Take(s, Len(x)) = x

Unknown_Company ==
    <<"U","n","k","n","o","w","n","_","C","o","m","p","a","n","y">>

----------------------------------------------------------------------------
(* clean_company_name *)

\* the alternatives of ^(The\s+|A\s+), in order
Articles == << <<"T","h","e">>, <<"A">> >>

\* length of the match of ^(The\s+|A\s+) at the start of s, 0 if none
ArticleMatchLen(s) ==
    LET ok(k) == HasWordAt(s, 1, Articles[k])
                 /\ SpaceRun(s, Len(Articles[k]) + 1) >= 1
    IN  IF \E k \in 1..Len(Articles) : ok(k)
        THEN LET k == CHOOSE k \in 1..Len(Articles) :
                          ok(k) /\ \A h \in 1..(k - 1) : ~ok(h)
             IN  Len(Articles[k]) + SpaceRun(s, Len(Articles[k]) + 1)
        ELSE 0

RemoveArticle(s) == Drop(s, ArticleMatchLen(s))

\* the alternatives of (Inc\.?|LLC\.?|Ltd\.?|Corporation|Corp\.?|Company|Co\.?),
\* in order; dot says whether \.? follows the word
LegalSuffixes == <<
    [word |-> <<"I","n","c">>, dot |-> TRUE],
    [word |-> <<"L","L","C">>, dot |-> TRUE],
    [word |-> <<"L","t","d">>, dot |-> TRUE],
    [word |-> <<"C","o","r","p","o","r","a","t","i","o","n">>, dot |-> FALSE],
    [word |-> <<"C","o","r","p">>, dot |-> TRUE],
    [word |-> <<"C","o","m","p","a","n","y">>, dot |-> FALSE],
    [word |-> <<"C","o">>, dot |-> TRUE] >>

\* `$` after index e: the end of the string, or just before a final newline
AtEnd(s, e) == e = Len(s) \/ (e = Len(s) - 1 /\ s[Len(s)] = "\n")

\* last index of the match of one alternative at j followed by `$`, 0 if none;
\* \.? is greedy and gives the dot back when `$` fails after it
AltEnd_DotRequired(s, j, alt) ==
    LET e == j + Len(alt.word) - 1
    IN  IF HasWordAt(s, j, alt.word)
        THEN IF alt.dot
             THEN IF e + 1 <= Len(s) /\ s[e + 1] = "." /\ AtEnd(s, e + 1)
                  THEN e + 1 ELSE 0
             ELSE IF AtEnd(s, e) THEN e ELSE 0
        ELSE 0

AltEnd(s, j, alt) ==
    LET e == j + Len(alt.word) - 1
    IN  IF HasWordAt(s, j, alt.word)
        THEN IF alt.dot /\ e + 1 <= Len(s) /\ s[e + 1] = "." /\ AtEnd(s, e + 1)
             THEN e + 1
             ELSE IF AtEnd(s, e) THEN e ELSE 0
        ELSE 0

\* last index of the match of (Inc\.?|...|Co\.?)$ at j, 0 if none
RECURSIVE SuffixEndFrom(_, _, _)
SuffixEndFrom(s, j, k) ==
    IF k > Len(LegalSuffixes) THEN 0
    ELSE IF AltEnd(s, j, LegalSuffixes[k]) # 0 THEN AltEnd(s, j, LegalSuffixes[k])
         ELSE SuffixEndFrom(s, j, k + 1)

SuffixEnd(s, j) == SuffixEndFrom(s, j, 1)

\* last index of the match of \s+(...)$ that starts at i, 0 if none: \s+ takes
\* the longest run first and gives characters back one at a time
RECURSIVE SuffixAfterRun(_, _, _)
SuffixAfterRun(s, i, n) ==
    IF n < 1 THEN 0
    ELSE IF SuffixEnd(s, i + n) # 0 THEN SuffixEnd(s, i + n)
         ELSE SuffixAfterRun(s, i, n - 1)

SuffixMatchEnd(s, i) == SuffixAfterRun(s, i, SpaceRun(s, i))

\* re.sub(r'\s+(...)$', '', s): the leftmost match is removed; what follows a
\* match is at most one newline, where no second match can start
RECURSIVE FirstSuffixMatch(_, _)
FirstSuffixMatch(s, i) ==
    IF i > Len(s) THEN 0
    ELSE IF SuffixMatchEnd(s, i) # 0 THEN i ELSE FirstSuffixMatch(s, i + 1)

RemoveSuffix(s) ==
    LET i == FirstSuffixMatch(s, 1)
    IN  IF i = 0 THEN s ELSE Take(s, i - 1) \o Drop(s, SuffixMatchEnd(s, i))

\* the class [<>:"/\\|?*]
IllegalChars == {"<", ">", ":", "\"", "/", "\\", "|", "?", "*"}

ReplaceIllegal_NoBackslash(s) ==
    [k \in 1..Len(s) |-> IF s[k] \in IllegalChars \ {"\\"} THEN "_" ELSE s[k]]

ReplaceIllegal(s) ==
    [k \in 1..Len(s) |-> IF s[k] \in IllegalChars THEN "_" ELSE s[k]]

\* str.strip(): the characters of a set taken off both ends
RECURSIVE LStrip(_, _)
LStrip(s, set) ==
    IF s # <<>> /\ s[1] \in set THEN LStrip(Tail(s), set) ELSE s

RECURSIVE RStrip(_, _)
RStrip(s, set) ==
    IF s # <<>> /\ s[Len(s)] \in set THEN RStrip(Take(s, Len(s) - 1), set) ELSE s

StripChars(s, set) == RStrip(LStrip(s, set), set)

Strip(s) == StripChars(s, Whitespace)

\* re.sub(r'\s+', '_', s): every maximal run of whitespace becomes one "_"
RECURSIVE CollapseSpaces(_)
CollapseSpaces(s) ==
    IF s = <<>> THEN <<>>
    ELSE IF s[1] \in Whitespace
         THEN <<"_">> \o CollapseSpaces(Drop(s, SpaceRun(s, 1)))
         ELSE <<s[1]>> \o CollapseSpaces(Tail(s))

\* cleaned[:50] if len(cleaned) > 50 else cleaned
Truncate(s) == IF Len(s) > NameLimit THEN Take(s, NameLimit) ELSE s

clean_company_name(raw_name) ==
    IF raw_name = <<>> THEN Unknown_Company
    ELSE Truncate(CollapseSpaces(Strip(ReplaceIllegal(
             RemoveSuffix(RemoveArticle(raw_name))))))

----------------------------------------------------------------------------
(* validate_file *)

\* None, and an UploadedFile (always truthy: it defines neither __bool__ nor
\* __len__)
NoneFile == [none |-> TRUE]
Upload(name, size, type, bytes) ==
    [name |-> name, size |-> size, type |-> type, bytes |-> bytes]

\* file_size_mb = size / (1024 * 1024) is a division of an integer below 2^53
\* by a power of two, exact in binary floating point, so that
\* file_size_mb > MAX_FILE_SIZE_MB compares size with 200 * 1024 * 1024
FileSizeExceeds_Inclusive(size) == size >= MAX_FILE_SIZE_MB * BytesPerMB

FileSizeExceeds(size) == size > MAX_FILE_SIZE_MB * BytesPerMB

\* the message of the size branch also carries the size, formatted; the model
\* keeps its fixed words
validate_file(uploaded_file) ==
    IF uploaded_file = NoneFile THEN <<FALSE, "No file uploaded">>
    ELSE IF FileSizeExceeds(uploaded_file.size)
         THEN <<FALSE, "File size exceeds maximum allowed size">>
         ELSE IF uploaded_file.type # "application/pdf"
              THEN <<FALSE, "Only PDF files are supported">>
              ELSE <<TRUE, "">>

----------------------------------------------------------------------------
(* get_company_name_from_pdf: what one response is turned into *)

ErrorWord == <<"E","r","r","o","r">>

\* f"Error extracting company name: {e}"
ErrorPrefix ==
    <<"E","r","r","o","r"," ","e","x","t","r","a","c","t","i","n","g"," ",
      "c","o","m","p","a","n","y"," ","n","a","m","e",":"," ">>

\* the characters of '"\'`'; a TLA+ string cannot hold the backquote, which is
\* written "bq"
QuoteChars == {"\"", "'", "bq"}

\* response.text.strip().strip('"\'`'), then clean_company_name
NameFromText(text) == clean_company_name(StripChars(Strip(text), QuoteChars))

\* company_name and company_name != "Unknown_Company" and len(company_name) > 1
IsValidName(name) ==
    name # <<>> /\ name # Unknown_Company /\ Len(name) > 1

\* a response.text that is not empty and cleans to a valid name
YieldsName(text) == text # <<>> /\ IsValidName(NameFromText(text))

\* what generate_content can do: raise, or answer with a text
Throw(msg) == [kind |-> "throw", text |-> msg]
Answer(text) == [kind |-> "text", text |-> text]

ServiceOutcomes == {
    Throw(<<"q","u","o","t","a">>),
    Answer(<<>>),
    Answer(<<" ">>),
    Answer(Unknown_Company),
    Answer(<<"X">>),
    Answer(<<"\"","G","o","o","g","l","e"," ","L","L","C","\"","\n">>),
    Answer(<<"E","r","r","o","r"," ","C","o">>) }

\* the attempt after which the loop over range(max_retries) is over
IsLastAttempt(a) == a = max_retries - 1

\* the locals when the function is entered
ExStart ==
    [attempt |-> 0, outcomes |-> <<>>, sleeps |-> 0, done |-> FALSE,
     name |-> <<>>]

Returned(st, name) == [st EXCEPT !.done = TRUE, !.name = name]

\* AttemptStep without the test of line 221: the first exception is returned
AttemptStep_NoRetryOnThrow(st, o) ==
    LET called == [st EXCEPT !.outcomes = Append(@, o)]
    IN  IF o.kind = "throw"
        THEN Returned(called, ErrorPrefix \o o.text)
        ELSE IF YieldsName(o.text)
             THEN Returned(called, NameFromText(o.text))
             ELSE IF IsLastAttempt(st.attempt)
                  THEN Returned(called, Unknown_Company)
                  ELSE [called EXCEPT !.attempt = @ + 1]

\* AttemptStep returning the last text as it came instead of the sentinel
AttemptStep_NoSentinel(st, o) ==
    LET called == [st EXCEPT !.outcomes = Append(@, o)]
    IN  IF o.kind = "throw"
        THEN IF st.attempt = max_retries - 1
             THEN Returned(called, ErrorPrefix \o o.text)
             ELSE [called EXCEPT !.sleeps = @ + 1, !.attempt = @ + 1]
        ELSE IF YieldsName(o.text)
             THEN Returned(called, NameFromText(o.text))
             ELSE IF IsLastAttempt(st.attempt)
                  THEN Returned(called, o.text)
                  ELSE [called EXCEPT !.attempt = @ + 1]

\* AttemptStep keeping the last exception: when the loop is over without a
\* name and a call has thrown, the error string is returned
AttemptStep_ErrorAfterAnyThrow(st, o) ==
    LET called == [st EXCEPT !.outcomes = Append(@, o)]
    IN  IF o.kind = "throw"
        THEN IF st.attempt = max_retries - 1
             THEN Returned(called, ErrorPrefix \o o.text)
             ELSE [called EXCEPT !.sleeps = @ + 1, !.attempt = @ + 1]
        ELSE IF YieldsName(o.text)
             THEN Returned(called, NameFromText(o.text))
             ELSE IF IsLastAttempt(st.attempt)
                  THEN IF \E k \in 1..Len(st.outcomes) :
                              st.outcomes[k].kind = "throw"
                       THEN Returned(called, ErrorPrefix)
                       ELSE Returned(called, Unknown_Company)
                  ELSE [called EXCEPT !.attempt = @ + 1]

\* one pass of the loop of lines 199..224 in which generate_content does o,
\* and lines 226..227 when the loop is over after it
AttemptStep(st, o) ==
    LET called == [st EXCEPT !.outcomes = Append(@, o)]
    IN  IF o.kind = "throw"
        THEN IF st.attempt = max_retries - 1
             THEN Returned(called, ErrorPrefix \o o.text)
             ELSE [called EXCEPT !.sleeps = @ + 1, !.attempt = @ + 1]
        ELSE IF YieldsName(o.text)
             THEN Returned(called, NameFromText(o.text))
             ELSE IF IsLastAttempt(st.attempt)
                  THEN Returned(called, Unknown_Company)
                  ELSE [called EXCEPT !.attempt = @ + 1]

\* the locals at every return the service can lead to
RECURSIVE RunsFrom(_)
RunsFrom(st) ==
    IF st.done THEN {st}
    ELSE UNION {RunsFrom(AttemptStep(st, o)) : o \in ServiceOutcomes}

\* what get_company_name_from_pdf can return
ExtractReturns == {st.name : st \in RunsFrom(ExStart)}

----------------------------------------------------------------------------
(* save_certificate_to_company_folder *)

\* os.path.splitext(original_filename)[0]: the name up to its last dot, the
\* whole name if only dots precede that dot
RECURSIVE LastDot(_, _)
LastDot(s, k) == IF k = 0 \/ s[k] = "." THEN k ELSE LastDot(s, k - 1)

SplitExtBase(s) ==
    LET d == LastDot(s, Len(s))
    IN  IF d = 0 \/ \A k \in 1..d : s[k] = "." THEN s ELSE Take(s, d - 1)

\* certificates/<company>/<base>_<timestamp>.pdf for counter 0 and
\* certificates/<company>/<base>_<timestamp>_<counter>.pdf otherwise. The
\* timestamp has a fixed width and shape (8 digits, 6 digits, 3 digits), so
\* two such tuples name the same path only if they are equal.
Path(company, base, ts, counter) == <<company, base, ts, counter>>

\* the while loop over os.path.exists: the first free counter from k on
RECURSIVE Probe(_, _, _, _, _)
Probe(fs, company, base, ts, k) ==
    IF Path(company, base, ts, k) \in DOMAIN fs
    THEN Probe(fs, company, base, ts, k + 1)
    ELSE k

\* the save without the loop of lines 257..261
ProbeFromStart_NoProbe(fs, company, base, ts) == 0

\* the save always appending a counter: the loop entered with counter = 1
\* whether or not the path without a counter exists
ProbeFromStart_SkipsBare(fs, company, base, ts) ==
    Probe(fs, company, base, ts, 1)

ProbeFromStart(fs, company, base, ts) == Probe(fs, company, base, ts, 0)

\* datetime.now(): the clock has not moved since the last timestamp, or has
TimestampsAt(t) == {u \in {t, t + 1} : u <= MaxClock}

\* contents: n bytes of the upload tagged tag
Bytes(tag, n) == [tag |-> tag, len |-> n]

\* what a write that raises leaves in the file open() has created: a proper
\* prefix of the bytes; the model keeps the shortest, the empty file
PartialWrites(b) == {Bytes(b.tag, 0)}

\* how a call ends: it returns, or os.makedirs, open or f.write raises
SaveEndings == {"ok", "makedirs", "open", "write"}

\* the save writing what a second read() of the upload returns: nothing
SavedFiles_ReadTwice(fs, path, bytes, ending, partial) ==
    IF ending = "ok" THEN (path :> Bytes(bytes.tag, 0)) @@ fs
    ELSE IF ending = "write" THEN (path :> partial) @@ fs
    ELSE fs

\* the disk after the call
SavedFiles(fs, path, bytes, ending, partial) ==
    IF ending = "ok" THEN (path :> bytes) @@ fs
    ELSE IF ending = "write" THEN (path :> partial) @@ fs
    ELSE fs

SavedDirs(ds, company, ending) ==
    IF ending = "makedirs" THEN ds ELSE ds \cup {company}

----------------------------------------------------------------------------
(* The Streamlit script: session state and the two buttons *)

NoTimes == [pdf_processing |-> 0, ai_extraction |-> 0, file_saving |-> 0,
            total_per_file |-> 0]

\* lines 36..53
InitialSessionState ==
    [results |-> <<>>,
     processed_files |-> <<>>,
     processing_stats |->
        [total_files |-> 0, successful |-> 0, failed |-> 0,
         start_time |-> "None", detailed_timing |-> <<>>,
         average_times |-> NoTimes]]

\* the dict Clear Results stores
ClearedStats ==
    [total_files |-> 0, successful |-> 0, failed |-> 0, start_time |-> "None"]

Operations == {"PDF Processing", "AI Extraction", "File Saving", "Total"}

\* dict.update of processing_stats
StatsUpdate(stats, n) ==
    [total_files |-> n, successful |-> 0, failed |-> 0, start_time |-> "time"]
        @@ stats

Bump(stats, key) == [stats EXCEPT ![key] = @ + 1]

\* setting a key of a dict
SetKey(d, key, value) == (key :> value) @@ d

\* the uploads a user picks from
Uploads == {
    [name |-> <<"a",".","p","d","f">>, size |-> 3, type |-> "application/pdf",
     bytes |-> Bytes(1, 3)],
    [name |-> <<"a",".","p","d","f">>, size |-> 2, type |-> "application/pdf",
     bytes |-> Bytes(2, 2)],
    [name |-> <<"n",".","p","n","g">>, size |-> 3, type |-> "image/png",
     bytes |-> Bytes(3, 3)] }

RECURSIVE SeqsUpTo(_, _)
SeqsUpTo(S, n) ==
    IF n = 0 THEN {<<>>}
    ELSE LET shorter == SeqsUpTo(S, n - 1)
         IN  shorter \cup {Append(q, x) : q \in shorter, x \in S}

\* the lists the uploader can return when n more files may be submitted
Selections(n) == SeqsUpTo(Uploads, n) \ {<<>>}

\* nothing is being handled: the state between two clicks, at the start
AppIdle ==
    /\ session_state = InitialSessionState
    /\ files = <<>> /\ dirs = {} /\ cache = {} /\ clock = 0 /\ submitted = 0
    /\ pc = "idle" /\ uploaded_files = <<>> /\ idx = 0 /\ results = <<>>
    /\ company_name = <<>>
    /\ log = <<>>

Init ==
    /\ AppIdle
    /\ vfile = NoneFile /\ vres = <<>>
    /\ cparts = <<>> /\ cpc = "arg" /\ cout = <<>> /\ cout2 = <<>>
    /\ ex = ExStart

file == uploaded_files[idx]

\* where the for loop goes after the file at idx: the next file, or the code
\* after the loop
AfterFile == IF idx < Len(uploaded_files) THEN "validate" ELSE "store"

\* results.append(result) with the counter bumped, and on to the next file
FileDone(result, counter) ==
    /\ results' = Append(results, result)
    /\ session_state' =
           [session_state EXCEPT !.processing_stats = Bump(@, counter)]
    /\ pc' = AfterFile
    /\ idx' = IF idx < Len(uploaded_files) THEN idx + 1 ELSE idx

\* the Process Certificates button, lines 486..500
ProcessClick ==
    /\ pc = "idle"
    /\ submitted < MaxUploads
    /\ \E sel \in Selections(MaxUploads - submitted) :
        /\ uploaded_files' = sel
        /\ submitted' = submitted + Len(sel)
        /\ session_state' =
               [session_state EXCEPT
                   !.processing_stats = StatsUpdate(@, Len(sel))]
    /\ results' = <<>>
    /\ idx' = 1
    /\ log' = <<>>
    /\ pc' = "validate"
    /\ UNCHANGED <<diskVars, cache, company_name, validVars, cleanVars, ex>>

\* lines 508..519
Validate ==
    /\ pc = "validate"
    /\ LET v == validate_file(file)
       IN  IF ~v[1]
           THEN /\ FileDone([filename |-> file.name, status |-> "error",
                             company_name |-> "N/A", message |-> <<v[2]>>],
                            "failed")
           ELSE /\ pc' = "rasterize"
                /\ UNCHANGED <<session_state, results, idx>>
    /\ UNCHANGED <<diskVars, cache, submitted, uploaded_files, company_name, log,
                   validVars, cleanVars, ex>>

\* the except branch placed around the loop instead of inside it: the batch
\* ends at the first exception
ProcessingError_EndsBatch(what) ==
    /\ results' = Append(results,
           [filename |-> file.name, status |-> "error",
            company_name |-> "N/A",
            message |-> <<"Processing error", what>>])
    /\ session_state' =
           [session_state EXCEPT !.processing_stats = Bump(@, "failed")]
    /\ pc' = "store"
    /\ UNCHANGED idx

\* the except branch of the loop body, lines 616..625
ProcessingError(what) ==
    FileDone([filename |-> file.name, status |-> "error",
              company_name |-> "N/A",
              message |-> <<"Processing error", what>>], "failed")

\* Rasterize with the call of line 539 left out: the name is the stale one
Rasterize_SkipsExtraction ==
    /\ pc = "rasterize"
    /\ pc' = "decide"
    /\ cache' = cache \cup {<<file.bytes, file.name>>}
    /\ log' = Append(log, <<idx, "rasterize">>)
    /\ UNCHANGED <<session_state, results, idx, diskVars, submitted,
                   uploaded_files, company_name, validVars, cleanVars, ex>>

\* lines 527..536: process_uploaded_pdf behind st.cache_data(ttl=300). An
\* entry that has not expired is returned; otherwise the PDF is converted,
\* which raises ValueError or returns and is cached
Rasterize ==
    /\ pc = "rasterize"
    /\ LET key == <<file.bytes, file.name>>
       IN  \E fresh \in BOOLEAN, converts \in BOOLEAN :
             IF key \in cache /\ fresh
             THEN /\ converts
                  /\ pc' = "extract"
                  /\ UNCHANGED <<cache, session_state, results, idx>>
             ELSE IF converts
                  THEN /\ cache' = cache \cup {key}
                       /\ pc' = "extract"
                       /\ UNCHANGED <<session_state, results, idx>>
                  ELSE /\ cache' = cache \ {key}
                       /\ ProcessingError("Error processing PDF")
    /\ log' = Append(log, <<idx, "rasterize">>)
    /\ UNCHANGED <<diskVars, submitted, uploaded_files, company_name, validVars,
                   cleanVars, ex>>

\* line 539: get_company_name_from_pdf returns, whatever the service did
Extract ==
    /\ pc = "extract"
    /\ \E name \in ExtractReturns : company_name' = name
    /\ pc' = "decide"
    /\ log' = Append(log, <<idx, "extract">>)
    /\ UNCHANGED <<session_state, diskVars, cache, submitted, uploaded_files,
                   idx, results, validVars, cleanVars, ex>>

\* line 542
Savable(name) == ~Contains(name, ErrorWord) /\ name # Unknown_Company

\* lines 552..574: the timing record of a saved file
WithTiming(ss, record) ==
    LET s1 == IF "detailed_timing" \in DOMAIN ss THEN ss
              ELSE SetKey(ss, "detailed_timing", <<>>)
        s2 == IF "average_times" \in DOMAIN s1 THEN s1
              ELSE SetKey(s1, "average_times", [op \in Operations |-> 0])
    IN  [s2 EXCEPT !.detailed_timing = Append(@, record),
                   !.average_times = [op \in Operations |-> @[op] + 1]]

\* lines 542..599 and 614: the name is usable and the certificate is saved,
\* or the save raises OSError and the except branch takes over
SaveFile ==
    /\ pc = "decide"
    /\ Savable(company_name)
    /\ \E ts \in TimestampsAt(clock), ending \in SaveEndings,
          partial \in PartialWrites(file.bytes) :
        LET base == SplitExtBase(file.name)
            k == ProbeFromStart(files, company_name, base, ts)
            path == Path(company_name, base, ts, k)
        IN  /\ clock' = ts
            /\ dirs' = SavedDirs(dirs, company_name, ending)
            /\ files' = SavedFiles(files, path, file.bytes, ending, partial)
            /\ IF ending = "ok"
               THEN /\ results' = Append(results,
                          [filename |-> file.name, status |-> "success",
                           company_name |-> company_name,
                           message |-> <<"Saved to", path>>,
                           timing |-> Operations])
                    /\ session_state' =
                          [WithTiming(session_state,
                               [filename |-> file.name,
                                company |-> company_name,
                                times |-> Operations])
                           EXCEPT !.processing_stats = Bump(@, "successful")]
                    /\ pc' = AfterFile
                    /\ idx' = IF idx < Len(uploaded_files) THEN idx + 1 ELSE idx
               ELSE ProcessingError("Failed to save certificate")
    /\ log' = Append(log, <<idx, "save">>)
    /\ company_name' = <<>>
    /\ UNCHANGED <<cache, submitted, uploaded_files, validVars, cleanVars, ex>>

\* lines 600..614: no usable name
SkipFile ==
    /\ pc = "decide"
    /\ ~Savable(company_name)
    /\ FileDone([filename |-> file.name, status |-> "warning",
                 company_name |-> company_name,
                 message |-> <<"Could not extract company name reliably">>,
                 timing |-> Operations \ {"File Saving"}], "failed")
    /\ company_name' = <<>>
    /\ UNCHANGED <<diskVars, cache, submitted, uploaded_files, log,
                   validVars, cleanVars, ex>>

\* lines 627..643, after the loop; the script run ends and its locals with it
StoreResults ==
    /\ pc = "store"
    /\ session_state' =
           [session_state EXCEPT !.processed_files = @ \o results]
    /\ pc' = "idle"
    /\ results' = <<>>
    /\ UNCHANGED <<diskVars, cache, submitted, uploaded_files, idx,
                   company_name, log, validVars, cleanVars, ex>>

\* the Clear Results button, lines 459..467
ClearResults ==
    /\ pc = "idle"
    /\ session_state' =
           [session_state EXCEPT !.processed_files = <<>>,
                                 !.processing_stats = ClearedStats]
    /\ UNCHANGED <<diskVars, cache, submitted, uploaded_files, idx, results,
                   company_name, log, pc, validVars, cleanVars, ex>>

Next ==
    \/ ProcessClick
    \/ Validate
    \/ Rasterize
    \/ Extract
    \/ SaveFile
    \/ SkipFile
    \/ StoreResults
    \/ ClearResults

Spec == Init /\ [][Next]_vars

----------------------------------------------------------------------------
(* validate_file on its own: one call on an argument drawn from ValidateInputs *)

SizeCeiling == MAX_FILE_SIZE_MB * BytesPerMB

ValidateSizes ==
    (0..SizeSpan) \cup ((SizeCeiling - SizeSpan)..(SizeCeiling + SizeSpan))

MimeTypes == {"application/pdf", "image/png", "text/plain", ""}

ValidateInputs ==
    {NoneFile} \cup
    {Upload(n, sz, t, <<1>>) :
        n \in {"a.pdf", "b.png"}, sz \in ValidateSizes, t \in MimeTypes}

InitValidate ==
    /\ vfile \in ValidateInputs
    /\ vres = <<>>
    /\ cparts = <<>> /\ cpc = "arg" /\ cout = <<>> /\ cout2 = <<>>
    /\ ex = ExStart
    /\ AppIdle

ValidateCall ==
    /\ vres = <<>>
    /\ vres' = validate_file(vfile)
    /\ UNCHANGED <<vfile, cleanVars, ex, appVars>>

NextValidate == ValidateCall

SpecValidate == InitValidate /\ [][NextValidate]_vars

----------------------------------------------------------------------------
(* clean_company_name on its own: the argument is prefix, core, a run of a *)
(* filler character, suffix; it is cleaned, and the result cleaned again   *)

Fill(c, n) == [k \in 1..n |-> c]

FillLens == (0..PadSpan) \cup ((NameLimit - PadSpan)..(NameLimit + PadSpan))

CleanPrefixes == {
    <<>>,
    <<"T","h","e"," ">>,
    <<"t","h","e"," "," ">>,
    <<"T","H","E","\t">>,
    <<"A"," ">>,
    <<"T","h","e">> }

CleanCores == {
    <<>>,
    <<"C","o","u","r","s","e","r","a">>,
    <<"X">>,
    <<"a"," "," ","b">>,
    <<"<","x",">",":">>,
    <<"\"","/","\\","|","?","*">> }

CleanFillers == {"x", "*", " "}

CleanSuffixes == {
    <<>>,
    <<" ","I","n","c",".">>,
    <<" ","i","n","c">>,
    <<" ","L","L","C">>,
    <<" ","L","t","d",".">>,
    <<" ","C","o","r","p","o","r","a","t","i","o","n">>,
    <<" ","C","o","r","p",".">>,
    <<" ","C","o","m","p","a","n","y">>,
    <<"\t"," ","C","o",".">>,
    <<" ","I","n","c",".","\n">>,
    <<" ","I","n","c","."," ">>,
    <<" ","I","n","c",".",".">>,
    <<"I","n","c",".">> }

CleanArg(p) == p.pre \o p.core \o Fill(p.fillc, p.filln) \o p.suf

InitClean ==
    /\ cparts \in [pre : CleanPrefixes, core : CleanCores,
                    fillc : CleanFillers, filln : FillLens, suf : CleanSuffixes]
    /\ cpc = "arg" /\ cout = <<>> /\ cout2 = <<>>
    /\ vfile = NoneFile /\ vres = <<>>
    /\ ex = ExStart
    /\ AppIdle

CleanCall ==
    /\ cpc = "arg"
    /\ cout' = clean_company_name(CleanArg(cparts))
    /\ cpc' = "once"
    /\ UNCHANGED <<cparts, cout2, validVars, ex, appVars>>

CleanAgain ==
    /\ cpc = "once"
    /\ cout2' = clean_company_name(cout)
    /\ cpc' = "twice"
    /\ UNCHANGED <<cparts, cout, validVars, ex, appVars>>

NextClean == CleanCall \/ CleanAgain

SpecClean == InitClean /\ [][NextClean]_vars

----------------------------------------------------------------------------
(* get_company_name_from_pdf on its own: one call, one pass of its loop at *)
(* a time, the service doing anything it can at each generate_content      *)

InitExtract == Init

Attempt ==
    /\ ~ex.done
    /\ \E o \in ServiceOutcomes : ex' = AttemptStep(ex, o)
    /\ UNCHANGED <<validVars, cleanVars, appVars>>

NextExtract == Attempt

SpecExtract == InitExtract /\ [][NextExtract]_vars

----------------------------------------------------------------------------
(* Claims *)

\* C1: validate_file returns (False, message) for an upload above
\* 200*1024*1024 bytes and for an upload whose type is not application/pdf,
\* (True, "") for every other upload, a PDF of exactly 200 MB included, and
\* (False, message) for None.
C1_ValidateContract ==
    vres # <<>> =>
        IF vfile = NoneFile
        THEN vres[1] = FALSE /\ vres[2] # ""
        ELSE IF vfile.size > 209715200 \/ vfile.type # "application/pdf"
             THEN vres[1] = FALSE /\ vres[2] # ""
             ELSE vres = <<TRUE, "">>

\* a PDF of exactly 200 MB has been validated and accepted
C1_Witness ==
    /\ vres = <<TRUE, "">>
    /\ vfile # NoneFile
    /\ vfile.size = 209715200

\* C2: for every argument, the empty string included, clean_company_name
\* returns a string with none of < > : " / \ | ? * and of length at most 50.
C2_CleanSafe ==
    cpc # "arg" =>
        /\ Len(cout) <= 50
        /\ \A k \in 1..Len(cout) :
               cout[k] \notin {"<", ">", ":", "\"", "/", "\\", "|", "?", "*"}

\* an argument longer than 50 with illegal characters was cut to 50
C2_Witness ==
    /\ cpc = "once"
    /\ Len(CleanArg(cparts)) > 50
    /\ \E k \in 1..Len(CleanArg(cparts)) : CleanArg(cparts)[k] = "\\"
    /\ Len(cout) = 50

\* the arguments of the form article, name, legal suffix: the name is not
\* empty and does not begin with whitespace
C3_ArticleArgs ==
    { <<"T","h","e"," ">>, <<"t","h","e"," "," ">>, <<"T","H","E","\t">>,
      <<"A"," ">> }

C3_SuffixArgs ==
    { <<" ","I","n","c",".">>, <<" ","i","n","c">>, <<" ","L","L","C">>,
      <<" ","L","t","d",".">>,
      <<" ","C","o","r","p","o","r","a","t","i","o","n">>,
      <<" ","C","o","r","p",".">>, <<" ","C","o","m","p","a","n","y">>,
      <<"\t"," ","C","o",".">> }

C3_Name(p) == p.core \o Fill(p.fillc, p.filln)

C3_InForm(p) ==
    /\ p.pre \in C3_ArticleArgs
    /\ p.suf \in C3_SuffixArgs
    /\ C3_Name(p) # <<>>
    /\ C3_Name(p)[1] \notin Whitespace

\* what the later steps (illegal characters, whitespace, length) make of a name
C3_Sanitized(name) == Truncate(CollapseSpaces(Strip(ReplaceIllegal(name))))

\* C3: clean_company_name removes a leading article ("The ", "A ") and a
\* trailing legal suffix (Inc., LLC, Ltd., Corporation, Corp., Company, Co.):
\* of article + name + suffix only the name is left, made filesystem-safe,
\* and clean_company_name("The Coursera Inc.") is "Coursera".
C3_ArticleAndSuffixRemoved ==
    cpc = "once" =>
        /\ C3_InForm(cparts) => cout = C3_Sanitized(C3_Name(cparts))
        /\ CleanArg(cparts) =
               <<"T","h","e"," ","C","o","u","r","s","e","r","a"," ","I","n","c",".">>
             => cout = <<"C","o","u","r","s","e","r","a">>

\* "The Coursera Inc." has been cleaned
C3_Witness ==
    /\ cpc = "once"
    /\ C3_InForm(cparts)
    /\ CleanArg(cparts) =
           <<"T","h","e"," ","C","o","u","r","s","e","r","a"," ","I","n","c",".">>
    /\ cout = <<"C","o","u","r","s","e","r","a">>

\* C4: when every call of the service throws, get_company_name_from_pdf calls
\* it exactly 3 times and then returns "Error extracting company name: ...";
\* the error string is never returned after fewer than 3 calls and there is
\* no 4th call.
C4_AllThrow ==
    LET n == Len(ex.outcomes)
        allThrow == \A k \in 1..n : ex.outcomes[k].kind = "throw"
        isError == StartsWith(ex.name,
            <<"E","r","r","o","r"," ","e","x","t","r","a","c","t","i","n","g",
              " ","c","o","m","p","a","n","y"," ","n","a","m","e",":">>)
    IN  /\ n <= 3
        /\ (allThrow /\ n < 3) => ~ex.done
        /\ (allThrow /\ n = 3) => (ex.done /\ isError)
        /\ (ex.done /\ isError) => n = 3

\* three calls have thrown and the error string has been returned
C4_Witness ==
    /\ ex.done
    /\ Len(ex.outcomes) = 3
    /\ \A k \in 1..3 : ex.outcomes[k].kind = "throw"
    /\ ex.name = ErrorPrefix \o <<"q","u","o","t","a">>

\* C5: when the service answers every call with the empty string,
\* get_company_name_from_pdf returns "Unknown_Company", not an error string
\* and not an empty name.
C5_AllEmpty ==
    (/\ ex.done
     /\ \A k \in 1..Len(ex.outcomes) :
            ex.outcomes[k].kind = "text" /\ ex.outcomes[k].text = <<>>)
    => ex.name = <<"U","n","k","n","o","w","n","_","C","o","m","p","a","n","y">>

\* three empty answers, and the function has returned
C5_Witness ==
    /\ ex.done
    /\ Len(ex.outcomes) = 3
    /\ \A k \in 1..3 : ex.outcomes[k] = Answer(<<>>)

\* the result records of the session that are still held
HeldResults == session_state.processed_files \o results

IsSaved(r) == r.status = "success"
SavedPath(r) == r.message[2]

\* C6: two saves with the same original filename and the same company name
\* return two distinct paths, both on disk afterwards, also when both read
\* the same timestamp.
C6_DistinctPaths ==
    \A i, j \in 1..Len(HeldResults) :
        (/\ i < j
         /\ IsSaved(HeldResults[i]) /\ IsSaved(HeldResults[j])
         /\ HeldResults[i].filename = HeldResults[j].filename
         /\ HeldResults[i].company_name = HeldResults[j].company_name)
        => /\ SavedPath(HeldResults[i]) # SavedPath(HeldResults[j])
           /\ SavedPath(HeldResults[i]) \in DOMAIN files
           /\ SavedPath(HeldResults[j]) \in DOMAIN files

\* the same filename saved twice for the same company in the same millisecond
C6_Witness ==
    \E i, j \in 1..Len(HeldResults) :
        /\ i < j
        /\ IsSaved(HeldResults[i]) /\ IsSaved(HeldResults[j])
        /\ HeldResults[i].filename = HeldResults[j].filename
        /\ HeldResults[i].company_name = HeldResults[j].company_name
        /\ SavedPath(HeldResults[i])[3] = SavedPath(HeldResults[j])[3]
        /\ SavedPath(HeldResults[i]) # SavedPath(HeldResults[j])

Stats == session_state.processing_stats

\* C7: whatever fails (validation, rasterization, extraction, save), the
\* files after it are processed: there is one result record per file, in
\* order, and when the batch ends successful + failed = total_files = N.
C7_OneRecordPerFile ==
    LET n == Len(uploaded_files)
    IN  /\ pc \in {"validate", "rasterize", "extract", "decide"} =>
               /\ Len(results) = idx - 1
               /\ Stats.successful + Stats.failed = idx - 1
               /\ Stats.total_files = n
        /\ pc = "store" =>
               /\ Len(results) = n
               /\ \A k \in 1..n : results[k].filename = uploaded_files[k].name
               /\ Stats.successful + Stats.failed = n
               /\ Stats.total_files = n
               /\ Stats.successful =
                      Cardinality({k \in 1..n : results[k].status = "success"})
        /\ pc = "idle" => Stats.successful + Stats.failed = Stats.total_files

\* a batch of three has ended: the first file failed validation, the second
\* raised, the third was saved
C7_Witness ==
    /\ pc = "store"
    /\ Len(uploaded_files) = 3
    /\ results[1].status = "error" /\ Len(results[1].message) = 1
    /\ results[2].status = "error" /\ Len(results[2].message) = 2
    /\ results[3].status = "success"

\* a step in which save_certificate_to_company_folder returned a path
SaveReturned ==
    /\ pc = "decide"
    /\ Len(results') = Len(results) + 1
    /\ results'[Len(results')].status = "success"

\* C8: the files under certificates/ are append-only: no step deletes a file
\* or changes its contents, and a save that returns adds exactly one new
\* path, whose contents are the uploaded bytes.
C8_AppendOnly ==
    [][ /\ \A p \in DOMAIN files : p \in DOMAIN files' /\ files'[p] = files[p]
        /\ SaveReturned =>
             LET path == results'[Len(results')].message[2]
             IN  /\ path \notin DOMAIN files
                 /\ DOMAIN files' = DOMAIN files \cup {path}
                 /\ files'[path] = uploaded_files[idx].bytes ]_vars

\* two uploads of different contents are both on disk
C8_Witness ==
    \E p, q \in DOMAIN files :
        /\ files[p] = Bytes(1, 3)
        /\ files[q] = Bytes(2, 2)

\* st.session_state.detailed_timing, the list lines 552..574 append to and
\* display_performance_analytics reads
TimingRecords(ss) ==
    IF "detailed_timing" \in DOMAIN ss THEN ss.detailed_timing ELSE <<>>

\* C9: after Clear Results the counters total/success/fail are 0 and the list
\* of per-file timing records is empty.
C9_ClearResetsAll ==
    [][ ClearResults =>
          /\ session_state'.processing_stats.total_files = 0
          /\ session_state'.processing_stats.successful = 0
          /\ session_state'.processing_stats.failed = 0
          /\ TimingRecords(session_state') = <<>> ]_vars

StageRank(stage) ==
    IF stage = "rasterize" THEN 1 ELSE IF stage = "extract" THEN 2 ELSE 3

\* C10: in a batch, the stages of a file come in the order rasterize,
\* extract, save, every stage of file i is over before a stage of file i+1
\* begins, and no file is saved before its extraction has returned.
C10_StageOrder ==
    /\ \A k \in 1..(Len(log) - 1) :
          \/ log[k][1] < log[k + 1][1]
          \/ /\ log[k][1] = log[k + 1][1]
             /\ StageRank(log[k][2]) < StageRank(log[k + 1][2])
    /\ \A k \in 1..Len(log) :
          /\ log[k][2] = "extract" =>
                 k > 1 /\ log[k - 1] = <<log[k][1], "rasterize">>
          /\ log[k][2] = "save" =>
                 k > 1 /\ log[k - 1] = <<log[k][1], "extract">>
          /\ log[k][1] <= idx

\* two files have gone through all three stages, one after the other
C10_Witness ==
    /\ Len(log) >= 6
    /\ SubSeq(log, 1, 6) =
          << <<1, "rasterize">>, <<1, "extract">>, <<1, "save">>,
             <<2, "rasterize">>, <<2, "extract">>, <<2, "save">> >>

\* the string begins "Error extracting company name:"
IsErrorString(name) ==
    StartsWith(name,
        <<"E","r","r","o","r"," ","e","x","t","r","a","c","t","i","n","g",
          " ","c","o","m","p","a","n","y"," ","n","a","m","e",":">>)

\* the call threw, or answered with a text that gives no valid name
GivesNoName(o) == o.kind = "throw" \/ ~YieldsName(o.text)

\* C11: when none of the 3 attempts yields a valid name (each throws or
\* answers with empty or ambiguous text), get_company_name_from_pdf returns
\* an error string if and only if the 3rd attempt throws, and
\* "Unknown_Company" otherwise, whatever the earlier attempts did.
C11_LastAttemptDecides ==
    (ex.done /\ \A k \in 1..Len(ex.outcomes) : GivesNoName(ex.outcomes[k]))
    => /\ Len(ex.outcomes) = 3
       /\ IsErrorString(ex.name) <=> ex.outcomes[3].kind = "throw"
       /\ ex.outcomes[3].kind # "throw" =>
              ex.name =
                <<"U","n","k","n","o","w","n","_","C","o","m","p","a","n","y">>

\* the first two calls threw, the third answered with ambiguous text, and the
\* sentinel has been returned
C11_Witness ==
    /\ ex.done
    /\ Len(ex.outcomes) = 3
    /\ ex.outcomes[1].kind = "throw"
    /\ ex.outcomes[2].kind = "throw"
    /\ ex.outcomes[3] = Answer(<<"X">>)
    /\ ex.name = Unknown_Company

\* time.sleep(1) has run once between every two consecutive calls made so far
SleptBetweenAttempts ==
    ex.sleeps = IF ex.outcomes = <<>> THEN 0
                ELSE IF ex.done THEN Len(ex.outcomes) - 1
                ELSE Len(ex.outcomes)

\* C12: get_company_name_from_pdf makes at most 3 attempts, makes no attempt
\* after one that yielded a valid name, and has slept the fixed delay once
\* between every two consecutive attempts, whether the earlier of the two
\* threw or answered with empty or ambiguous text.
C12_BackoffBetweenAttempts ==
    /\ Len(ex.outcomes) <= 3
    /\ \A k \in 1..(Len(ex.outcomes) - 1) : GivesNoName(ex.outcomes[k])
    /\ SleptBetweenAttempts

\* C13: save_certificate_to_company_folder writes to <base>_<timestamp>.pdf
\* (counter 0) when that path is free, and otherwise to
\* <base>_<timestamp>_<k>.pdf for the smallest k >= 1 whose path does not
\* exist: every path a step creates is in the company's folder, carries the
\* upload's base name and the timestamp read, and all the paths of smaller
\* counter existed before the step; a save that returns has created the path
\* it returns.
C13_SmallestFreeCounter ==
    [][ /\ \A p \in DOMAIN files' \ DOMAIN files :
              /\ p[1] = company_name
              /\ p[2] = <<"a">>
              /\ p[3] = clock'
              /\ \A j \in 0..(p[4] - 1) :
                     <<p[1], p[2], p[3], j>> \in DOMAIN files
        /\ SaveReturned =>
              results'[Len(results')].message[2]
                  \in DOMAIN files' \ DOMAIN files ]_vars

\* a save has returned the path of counter 2, after two saves of the same
\* base name in the same millisecond into the company's folder, which
\* os.makedirs had then found existing twice
C13_Witness ==
    \E i \in 1..Len(HeldResults) :
        /\ IsSaved(HeldResults[i])
        /\ SavedPath(HeldResults[i])[4] = 2
        /\ SavedPath(HeldResults[i])[1] \in dirs
        /\ \A j \in 0..2 :
               <<SavedPath(HeldResults[i])[1], SavedPath(HeldResults[i])[2],
                 SavedPath(HeldResults[i])[3], j>> \in DOMAIN files

\* what the extractor returned is a company name: neither the sentinel nor a
\* service-error string
IsCompanyName(name) ==
    /\ name # <<"U","n","k","n","o","w","n","_","C","o","m","p","a","n","y">>
    /\ ~IsErrorString(name)

\* C14: a file that has passed validation and rasterization is handed to
\* save_certificate_to_company_folder if and only if the extractor returned a
\* valid company name, also when that name contains the substring "Error";
\* and only a file handed to the save is counted successful.
C14_ValidNameIsSaved ==
    [][ pc = "decide" =>
          /\ log' = Append(log, <<idx, "save">>) <=> IsCompanyName(company_name)
          /\ Stats'.successful > Stats.successful =>
                 IsCompanyName(company_name) ]_vars

\* C15: clean_company_name is idempotent: cleaning the cleaned name again
\* gives the cleaned name, also when the cleaned name is empty (the input was
\* only a leading article and whitespace).
C15_CleanIdempotent == cpc = "twice" => cout2 = cout

====
